---- MODULE Spec2Model ----
(***************************************************************************)
(* The generic CRUD gateway of REST_APIs_mysql.py and REST_APIs_mssql.py.  *)
(* One request is handled per step; the database (catalog, primary-key     *)
(* declarations, rows) is the shared state the handlers act on.            *)
(***************************************************************************)
EXTENDS Integers, Sequences, FiniteSets, TLC

\* ---------------------------------------------------------------- bounds
\* Rows the database holds in all its tables together.
MaxRows == 2
\* Connections that may be left open (an unbounded counter in the program).
MaxConns == 1

\* ------------------------------------------------------ database, catalog
\* Scalar values a column holds and a request carries.
Vals == {1, 2}

\* Every table has the same two columns.
Columns == {"id", "name"}

\* "No declared primary key": get_pk_constraint gives no constrained column.
NoPK == "nopk"

\* inspector.get_schema_names(), in the catalog's enumeration order.
Schemas == <<"s1", "s2">>

\* inspector.get_table_names(schema=schema): T1 is in both schemas, T2 in the
\* second only, T3 in none.
TableNames(schema) ==
    IF schema = "s1" THEN {"T1"} ELSE {"T1", "T2"}

\* The (schema, table) pairs of the catalog.
Tables ==
    {st \in {"s1", "s2"} \X {"T1", "T2"} : st[2] \in TableNames(st[1])}

\* A stored row: a value for every column.
AllRows == [Columns -> Vals]

\* A table's content is a multiset of rows (SQL gives rows no order):
\* the number of copies of each row.
EmptyTable == [r \in AllRows |-> 0]

RECURSIVE SumOver(_, _)
\* The number of copies, in table content b, of the rows of S.
SumOver(b, S) ==
    IF S = {} THEN 0
    ELSE LET r == CHOOSE x \in S : TRUE
         IN  b[r] + SumOver(b, S \ {r})

\* Rows of b whose column col holds v: the WHERE col = v of the statements.
Matching(col, v) == {r \in AllRows : r[col] = v}

\* The primary-key constraint pkc on content b: no two rows share the key.
KeyUnique(b, pkc) ==
    pkc = NoPK \/ \A v \in Vals : SumOver(b, Matching(pkc, v)) <= 1

TotalRows(rs) ==
    LET RECURSIVE Tot(_)
        Tot(S) == IF S = {} THEN 0
                  ELSE LET t == CHOOSE x \in S : TRUE
                       IN  SumOver(rs[t], AllRows) + Tot(S \ {t})
    IN  Tot(Tables)

\* table.insert().values(data): the row inserted. A column the payload does
\* not name takes the column's default (the smallest value).
RowOf(data) ==
    [c \in Columns |-> IF c \in DOMAIN data THEN data[c] ELSE 1]

\* conn.execute(insert_stmt) on content b under primary key pkc: the driver
\* raises on a duplicate key, else the row is added.
ExecInsert(b, pkc, data) ==
    LET r  == RowOf(data)
        nb == [b EXCEPT ![r] = @ + 1]
    IN  [ok |-> KeyUnique(nb, pkc), rows |-> nb, rowcount |-> 1]

\* A row after SET data.
Updated(r, data) ==
    [c \in Columns |-> IF c \in DOMAIN data THEN data[c] ELSE r[c]]

\* conn.execute(update_stmt): UPDATE ... SET data WHERE col = pk, on content b
\* whose declared (live) primary key is pkc. An empty SET list is a statement
\* the database rejects; a duplicate key after the update is rejected too.
\* rowcount is the number of rows matched.
ExecUpdate(b, col, pk, data, pkc) ==
    LET hit == Matching(col, pk)
        nb  == [r \in AllRows |->
                   (IF r \in hit THEN 0 ELSE b[r])
                   + SumOver(b, {r0 \in hit : Updated(r0, data) = r})]
    IN  [ok |-> DOMAIN data # {} /\ KeyUnique(nb, pkc),
         rows |-> nb,
         rowcount |-> SumOver(b, hit)]

\* conn.execute(delete_stmt): DELETE ... WHERE col = pk.
ExecDelete(b, col, pk) ==
    LET hit == Matching(col, pk)
    IN  [ok |-> TRUE,
         rows |-> [r \in AllRows |-> IF r \in hit THEN 0 ELSE b[r]],
         rowcount |-> SumOver(b, hit)]

\* ---------------------------------------------------------------- requests
Ops == {"read", "add", "update", "delete"}

\* Table names a request may carry: known ones, an unknown one, the empty one.
Names == {"T1", "T2", "T3", ""}

\* Column -> value payloads (table_data, update_data), {} included.
DataMaps == UNION {[S -> Vals] : S \in SUBSET Columns}

\* A JSON member: << >> when the key is absent, <<v>> when it holds v.
Field(D) == {<< >>} \cup {<<v>> : v \in D}

\* The bodies request.get_json() may return for an endpoint: null, or an
\* object with any of the endpoint's keys present ("data" stands for
\* table_data on add_record and update_data on update_record).
Requests(op) ==
    {[op |-> op, body |-> "null", table_name |-> << >>, pk |-> << >>,
      data |-> << >>]}
    \cup
    [op : {op}, body : {"object"},
     table_name : Field(Names),
     pk : IF op \in {"update", "delete"} THEN Field(Vals) ELSE {<< >>},
     data : IF op \in {"add", "update"} THEN Field(DataMaps) ELSE {<< >>}]

\* Where the driver fails during a request, if anywhere.
FailNone == <<"none", 0>>
FailSchemas == <<"schemas", 0>>
FailTables(i) == <<"tables", i>>
FailPk == <<"pk", 0>>
FailReflect == <<"reflect", 0>>
FailExecute == <<"execute", 0>>
FailCommit == <<"commit", 0>>

FailPoints ==
    {FailNone, FailSchemas, FailPk, FailReflect, FailExecute, FailCommit}
        \cup {FailTables(i) : i \in 1..Len(Schemas)}

\* The metadata collection holds no Table object for a (schema, table) key.
NotLoaded == "notloaded"

\* ------------------------------------------------------------------- state
VARIABLES
    backend,    \* which of the two programs runs: "mysql" or "mssql"
    pc,         \* "idle", or "respond" while a handled request awaits its reply
    rows,       \* content of every catalog table
    pkOf,       \* declared primary key of every catalog table, or NoPK
    metadata,   \* mssql self.metadata: per table key NotLoaded or the cached key
    openConns,  \* connections obtained by engine.connect() and not closed
    req,        \* the request being answered
    resp        \* its response, and what the handler did

vars == <<backend, pc, rows, pkOf, metadata, openConns, req, resp>>

NoReq ==
    [op |-> "none", body |-> "null", table_name |-> << >>, pk |-> << >>,
     data |-> << >>]

NoResp ==
    [status |-> 0, error |-> "none", schema |-> "", pkSeen |-> "unset",
     introspected |-> FALSE, executed |-> FALSE, faulted |-> FALSE]

\* What a handler starts from: nothing answered, nothing changed.
\*   error: "none" when the body has no error member, else why
\*          ("fields", "table", "pk", "driver", "internal"), or "unhandled"
\*          when the exception escapes the handler
\*   schema: the schema the table name resolved to, "" when none
\*   pkSeen: the primary key the request derived for the table, "unset" when
\*           it derived none
\*   faulted: a call to the driver raised for a reason outside the request
\*           (the FailPoints), whether or not the handler swallowed it
Untouched ==
    [status |-> 0, error |-> "none", schema |-> "", pkSeen |-> "unset",
     introspected |-> FALSE, executed |-> FALSE, faulted |-> FALSE,
     rows |-> rows, metadata |-> metadata, leak |-> 0]

\* --------------------------------------------------------- shared helpers
RECURSIVE ScanSchemasNoBreak(_, _, _)
\* The loop without its "break" / early return: a later schema listing the
\* name replaces an earlier one.
ScanSchemasNoBreak(i, name, f) ==
    IF i > Len(Schemas) THEN [kind |-> "notfound", schema |-> ""]
    ELSE IF f = FailTables(i) THEN [kind |-> "raise", schema |-> ""]
    ELSE LET rest == ScanSchemasNoBreak(i + 1, name, f)
         IN  IF rest.kind # "notfound" \/ name \notin TableNames(Schemas[i])
             THEN rest
             ELSE [kind |-> "found", schema |-> Schemas[i]]

RECURSIVE ScanSchemas(_, _, _)
\* The loop over the schemas, from the i-th on: the first schema whose table
\* list holds the name ("found"), none ("notfound"), or the exception of a
\* table listing that fails before a match ("raise").
ScanSchemas(i, name, f) ==
    IF i > Len(Schemas) THEN [kind |-> "notfound", schema |-> ""]
    ELSE IF f = FailTables(i) THEN [kind |-> "raise", schema |-> ""]
    ELSE IF name \in TableNames(Schemas[i])
         THEN [kind |-> "found", schema |-> Schemas[i]]
    ELSE ScanSchemas(i + 1, name, f)

\* The rowcount test inverted.
StatusOfRowcountInverted(n) ==
    IF n = 0 THEN 200 ELSE 404

\* result.rowcount == 0 -> 404, else 200.
StatusOfRowcount(n) ==
    IF n = 0 THEN 404 ELSE 200

\* ------------------------------------------------------------ mysql variant
\* "not data or k not in data", for the keys an endpoint requires.
MysqlFieldsMissing(r, keys) ==
    \/ r.body = "null"
    \/ "table_name" \in keys /\ r.table_name = << >>
    \/ "pk" \in keys /\ r.pk = << >>
    \/ "data" \in keys /\ r.data = << >>

\* get_primary_key_column: the first constrained column, None when there is
\* none or when the lookup raises (the exception is swallowed).
get_primary_key_column(t, f) ==
    IF f = FailPk THEN NoPK ELSE pkOf[t]

\* The part every mysql handler starts with: field check, get_schemas, the
\* scan, "does not exist in any schema". Gives the outcome when the handler
\* ends there, and otherwise the outcome so far with the schema found.
MysqlResolve(r, keys, f) ==
    IF MysqlFieldsMissing(r, keys)
    THEN [done |-> TRUE,
          out |-> [Untouched EXCEPT !.status = 400, !.error = "fields"]]
    ELSE IF f = FailSchemas
    THEN [done |-> TRUE,
          out |-> [Untouched EXCEPT !.status = 500, !.error = "driver",
                                    !.introspected = TRUE,
                                    !.faulted = TRUE]]
    ELSE LET s == ScanSchemas(1, r.table_name[1], f)
             seen == [Untouched EXCEPT !.introspected = TRUE]
         IN  IF s.kind = "raise"
             THEN [done |-> TRUE,
                   out |-> [seen EXCEPT !.status = 500, !.error = "driver",
                                        !.faulted = TRUE]]
             ELSE IF s.kind = "notfound"
             THEN [done |-> TRUE,
                   out |-> [seen EXCEPT !.status = 400, !.error = "table"]]
             ELSE [done |-> FALSE, out |-> [seen EXCEPT !.schema = s.schema]]

\* read_table: reflect, connect, execute, fetch, close.
MysqlReadOutcome(r, f) ==
    LET v == MysqlResolve(r, {"table_name"}, f)
    IN  IF v.done THEN v.out
        ELSE IF f = FailReflect
        THEN [v.out EXCEPT !.status = 500, !.error = "driver",
                           !.faulted = TRUE]
        ELSE IF f = FailExecute
        THEN [v.out EXCEPT !.status = 500, !.error = "driver",
                           !.executed = TRUE, !.leak = 1,
                           !.faulted = TRUE]
        ELSE [v.out EXCEPT !.status = 200, !.executed = TRUE]

\* add_record: reflect, insert().values(table_data), connect, execute,
\* commit, close.
MysqlAddOutcome(r, f) ==
    LET v == MysqlResolve(r, {"table_name", "data"}, f)
    IN  IF v.done THEN v.out
        ELSE IF f = FailReflect
        THEN [v.out EXCEPT !.status = 500, !.error = "driver",
                           !.faulted = TRUE]
        ELSE LET t == <<v.out.schema, r.table_name[1]>>
                 x == ExecInsert(rows[t], pkOf[t], r.data[1])
             IN  IF f \in {FailExecute, FailCommit} \/ ~x.ok
                 THEN [v.out EXCEPT !.status = 500, !.error = "driver",
                                    !.executed = TRUE, !.leak = 1,
                                    !.faulted = f # FailNone]
                 ELSE [v.out EXCEPT !.status = 200, !.executed = TRUE,
                                    !.rows = [rows EXCEPT ![t] = x.rows]]

\* update_record and delete_record after the schema is found: the primary
\* key, the reflected table, connect, execute, commit, close, rowcount.
MysqlWriteByKey(r, v, f) ==
    LET t   == <<v.out.schema, r.table_name[1]>>
        col == get_primary_key_column(t, f)
        got == IF f = FailPk THEN [v.out EXCEPT !.faulted = TRUE]
               ELSE [v.out EXCEPT !.pkSeen = col]
    IN  IF col = NoPK
        THEN [got EXCEPT !.status = 400, !.error = "pk"]
        ELSE IF f = FailReflect
        THEN [got EXCEPT !.status = 500, !.error = "driver",
                         !.faulted = TRUE]
        ELSE LET x == IF r.op = "update"
                      THEN ExecUpdate(rows[t], col, r.pk[1], r.data[1], pkOf[t])
                      ELSE ExecDelete(rows[t], col, r.pk[1])
             IN  IF f \in {FailExecute, FailCommit} \/ ~x.ok
                 THEN [got EXCEPT !.status = 500, !.error = "driver",
                                  !.executed = TRUE, !.leak = 1,
                                  !.faulted = f # FailNone]
                 ELSE [got EXCEPT !.status = StatusOfRowcount(x.rowcount),
                                  !.executed = TRUE,
                                  !.rows = [rows EXCEPT ![t] = x.rows]]

MysqlUpdateOutcome(r, f) ==
    LET v == MysqlResolve(r, {"table_name", "pk", "data"}, f)
    IN  IF v.done THEN v.out ELSE MysqlWriteByKey(r, v, f)

MysqlDeleteOutcome(r, f) ==
    LET v == MysqlResolve(r, {"table_name", "pk"}, f)
    IN  IF v.done THEN v.out ELSE MysqlWriteByKey(r, v, f)

\* ------------------------------------------------------------ mssql variant
\* "not request_data.get(k)" for a string, a number, a payload: the key is
\* absent, or its value is "", 0, {}.
FalsyName(fld) == fld = << >> \/ fld[1] = ""
FalsyPk(fld) == fld = << >> \/ fld[1] = 0
FalsyData(fld) == fld = << >> \/ DOMAIN fld[1] = {}

\* The "if not ..." line of a route, for the keys it reads.
MssqlFieldsMissing(r, keys) ==
    \/ "table_name" \in keys /\ FalsyName(r.table_name)
    \/ "pk" \in keys /\ FalsyPk(r.pk)
    \/ "data" \in keys /\ FalsyData(r.data)

\* fetch_schema_name: the first schema listing the table; None ("") when no
\* schema lists it and when anything raises.
fetch_schema_name(name, f) ==
    IF f = FailSchemas THEN [schema |-> "", raised |-> TRUE]
    ELSE LET s == ScanSchemas(1, name, f)
         IN  [schema |-> IF s.kind = "found" THEN s.schema ELSE "",
              raised |-> s.kind = "raise"]

\* Table(table_name, self.metadata, schema=schema_name, autoload_with=...):
\* the Table object already in self.metadata under that key is returned as
\* it is; only a key not yet there is reflected from the database and kept.
LoadTable(t, f) ==
    IF metadata[t] # NotLoaded
    THEN [ok |-> TRUE, pk |-> metadata[t], metadata |-> metadata]
    ELSE IF f = FailReflect
    THEN [ok |-> FALSE, pk |-> NoPK, metadata |-> metadata]
    ELSE [ok |-> TRUE, pk |-> pkOf[t],
          metadata |-> [metadata EXCEPT ![t] = pkOf[t]]]

\* The part every mssql route starts with: request_data.get on the body,
\* the "if not ..." check, fetch_schema_name, "Schema ... not found".
MssqlResolve(r, keys, f) ==
    IF r.body = "null"
    THEN [done |-> TRUE,
          out |-> [Untouched EXCEPT !.status = 500, !.error = "unhandled"]]
    ELSE IF MssqlFieldsMissing(r, keys)
    THEN [done |-> TRUE,
          out |-> [Untouched EXCEPT !.status = 400, !.error = "fields"]]
    ELSE LET fs   == fetch_schema_name(r.table_name[1], f)
             seen == [Untouched EXCEPT !.introspected = TRUE,
                                       !.faulted = fs.raised]
         IN  IF fs.schema = ""
             THEN [done |-> TRUE,
                   out |-> [seen EXCEPT !.status = 404, !.error = "table"]]
             ELSE [done |-> FALSE,
                   out |-> [seen EXCEPT !.schema = fs.schema]]

\* read_data_from_mssql and the route's "error" test.
MssqlReadOutcome(r, f) ==
    LET v == MssqlResolve(r, {"table_name"}, f)
    IN  IF v.done THEN v.out
        ELSE LET tb == LoadTable(<<v.out.schema, r.table_name[1]>>, f)
             IN  IF ~tb.ok
                 THEN [v.out EXCEPT !.status = 500, !.error = "driver"]
                 ELSE IF f = FailExecute
                 THEN [v.out EXCEPT !.status = 500, !.error = "driver",
                                    !.executed = TRUE, !.faulted = TRUE,
                                    !.metadata = tb.metadata]
                 ELSE [v.out EXCEPT !.status = 200, !.executed = TRUE,
                                    !.metadata = tb.metadata]

\* add_record_to_table and the route's "error" test.
MssqlAddOutcome(r, f) ==
    LET v == MssqlResolve(r, {"table_name", "data"}, f)
    IN  IF v.done THEN v.out
        ELSE LET t  == <<v.out.schema, r.table_name[1]>>
                 tb == LoadTable(t, f)
                 x  == ExecInsert(rows[t], pkOf[t], r.data[1])
             IN  IF ~tb.ok
                 THEN [v.out EXCEPT !.status = 500, !.error = "driver"]
                 ELSE IF f \in {FailExecute, FailCommit} \/ ~x.ok
                 THEN [v.out EXCEPT !.status = 500, !.error = "driver",
                                    !.executed = TRUE,
                                    !.faulted = f # FailNone,
                                    !.metadata = tb.metadata]
                 ELSE [v.out EXCEPT !.status = 200, !.executed = TRUE,
                                    !.metadata = tb.metadata,
                                    !.rows = [rows EXCEPT ![t] = x.rows]]

\* update_record_in_table / delete_record_from_table and the route's "error"
\* test: the table, [col for col in table.primary_key][0] (IndexError when
\* the Table object has no key column), execute, commit.
MssqlWriteByKey(r, v, f) ==
    LET t  == <<v.out.schema, r.table_name[1]>>
        tb == LoadTable(t, f)
        got == [v.out EXCEPT !.pkSeen = tb.pk, !.metadata = tb.metadata]
    IN  IF ~tb.ok
        THEN [v.out EXCEPT !.status = 500, !.error = "driver",
                           !.faulted = TRUE]
        ELSE IF tb.pk = NoPK
        THEN [got EXCEPT !.status = 500, !.error = "internal"]
        ELSE LET x == IF r.op = "update"
                      THEN ExecUpdate(rows[t], tb.pk, r.pk[1], r.data[1],
                                      pkOf[t])
                      ELSE ExecDelete(rows[t], tb.pk, r.pk[1])
             IN  IF f \in {FailExecute, FailCommit} \/ ~x.ok
                 THEN [got EXCEPT !.status = 500, !.error = "driver",
                                  !.executed = TRUE,
                                  !.faulted = f # FailNone]
                 ELSE [got EXCEPT !.status = 200, !.executed = TRUE,
                                  !.rows = [rows EXCEPT ![t] = x.rows]]

MssqlUpdateOutcome(r, f) ==
    LET v == MssqlResolve(r, {"table_name", "pk", "data"}, f)
    IN  IF v.done THEN v.out ELSE MssqlWriteByKey(r, v, f)

MssqlDeleteOutcome(r, f) ==
    LET v == MssqlResolve(r, {"table_name", "pk"}, f)
    IN  IF v.done THEN v.out ELSE MssqlWriteByKey(r, v, f)

\* ------------------------------------------------------------------ actions
Init ==
    /\ backend \in {"mysql", "mssql"}
    /\ pc = "idle"
    /\ rows = [t \in Tables |-> EmptyTable]
    /\ pkOf = [t \in Tables |-> "id"]
    /\ metadata = [t \in Tables |-> NotLoaded]
    /\ openConns = 0
    /\ req = NoReq
    /\ resp = NoResp

\* A handler's outcome becomes the state: the rows committed, the Table
\* objects kept, the connection left open if close() was not reached.
Finish(r, o) ==
    /\ TotalRows(o.rows) <= MaxRows
    /\ openConns + o.leak <= MaxConns
    /\ rows' = o.rows
    /\ metadata' = o.metadata
    /\ openConns' = openConns + o.leak
    /\ req' = r
    /\ resp' = [status |-> o.status, error |-> o.error, schema |-> o.schema,
                pkSeen |-> o.pkSeen, introspected |-> o.introspected,
                executed |-> o.executed, faulted |-> o.faulted]
    /\ pc' = "respond"
    /\ UNCHANGED <<backend, pkOf>>

MysqlReadTable ==
    /\ backend = "mysql" /\ pc = "idle"
    /\ \E r \in Requests("read"), f \in FailPoints :
           Finish(r, MysqlReadOutcome(r, f))

MysqlAddRecord ==
    /\ backend = "mysql" /\ pc = "idle"
    /\ \E r \in Requests("add"), f \in FailPoints :
           Finish(r, MysqlAddOutcome(r, f))

MysqlUpdateRecord ==
    /\ backend = "mysql" /\ pc = "idle"
    /\ \E r \in Requests("update"), f \in FailPoints :
           Finish(r, MysqlUpdateOutcome(r, f))

MysqlDeleteRecord ==
    /\ backend = "mysql" /\ pc = "idle"
    /\ \E r \in Requests("delete"), f \in FailPoints :
           Finish(r, MysqlDeleteOutcome(r, f))

MssqlReadTable ==
    /\ backend = "mssql" /\ pc = "idle"
    /\ \E r \in Requests("read"), f \in FailPoints :
           Finish(r, MssqlReadOutcome(r, f))

MssqlAddRecord ==
    /\ backend = "mssql" /\ pc = "idle"
    /\ \E r \in Requests("add"), f \in FailPoints :
           Finish(r, MssqlAddOutcome(r, f))

MssqlUpdateRecord ==
    /\ backend = "mssql" /\ pc = "idle"
    /\ \E r \in Requests("update"), f \in FailPoints :
           Finish(r, MssqlUpdateOutcome(r, f))

MssqlDeleteRecord ==
    /\ backend = "mssql" /\ pc = "idle"
    /\ \E r \in Requests("delete"), f \in FailPoints :
           Finish(r, MssqlDeleteOutcome(r, f))

\* The route returns: the response leaves and the request is over.
Respond ==
    /\ pc = "respond"
    /\ pc' = "idle"
    /\ req' = NoReq
    /\ resp' = NoResp
    /\ UNCHANGED <<backend, rows, pkOf, metadata, openConns>>

\* The tables a request can reach: those of the first schema listing their
\* name. (A table hidden behind an earlier schema is read by no request.)
Reachable ==
    {t \in Tables : ScanSchemas(1, t[2], FailNone).schema = t[1]}

\* Between two requests the database's own schema changes: a table's
\* primary-key constraint is dropped ...
DropPrimaryKey ==
    /\ pc = "idle"
    /\ \E t \in Reachable :
           /\ pkOf[t] # NoPK
           /\ pkOf' = [pkOf EXCEPT ![t] = NoPK]
    /\ UNCHANGED <<backend, pc, rows, metadata, openConns, req, resp>>

\* ... or declared on the id column, which the rows must allow.
AddPrimaryKey ==
    /\ pc = "idle"
    /\ \E t \in Reachable :
           /\ pkOf[t] = NoPK
           /\ KeyUnique(rows[t], "id")
           /\ pkOf' = [pkOf EXCEPT ![t] = "id"]
    /\ UNCHANGED <<backend, pc, rows, metadata, openConns, req, resp>>

Next ==
    \/ MysqlReadTable
    \/ MysqlAddRecord
    \/ MysqlUpdateRecord
    \/ MysqlDeleteRecord
    \/ MssqlReadTable
    \/ MssqlAddRecord
    \/ MssqlUpdateRecord
    \/ MssqlDeleteRecord
    \/ Respond
    \/ DropPrimaryKey
    \/ AddPrimaryKey

Spec == Init /\ [][Next]_vars

\* ------------------------------------------------------------------ claims
\* A handler has just run: its request and response are in req and resp.
Handled == pc = "respond"

\* The step in which a handler runs.
Handling == pc = "idle" /\ pc' = "respond"

\* Some schema of the catalog lists the name.
Listed(name) ==
    \E i \in 1..Len(Schemas) : name \in TableNames(Schemas[i])

\* The first schema, in enumeration order, that lists the name.
HomeOf(name) ==
    Schemas[CHOOSE i \in 1..Len(Schemas) :
                /\ name \in TableNames(Schemas[i])
                /\ \A j \in 1..(i - 1) : name \notin TableNames(Schemas[j])]

\* The request is a JSON object holding every key its endpoint reads, with a
\* named table and, where a payload is read, a payload naming a column.
WellFormed(r) ==
    /\ r.body = "object"
    /\ r.table_name # << >> /\ r.table_name[1] # ""
    /\ r.op \in {"update", "delete"} => r.pk # << >>
    /\ r.op \in {"add", "update"} => r.data # << >> /\ DOMAIN r.data[1] # {}

\* The request lacks a key its endpoint reads (or has no body at all).
KeyAbsent(r) ==
    \/ r.body = "null"
    \/ r.table_name = << >>
    \/ r.op \in {"update", "delete"} /\ r.pk = << >>
    \/ r.op \in {"add", "update"} /\ r.data = << >>

\* C1: an update or delete whose pk matches no row of the resolved table is
\* answered 404, never 200, and leaves the rows as they were (no driver
\* failure in the request).
C1_ZeroRowsIsNotFound ==
    [][(/\ Handling
        /\ req'.op \in {"update", "delete"}
        /\ WellFormed(req')
        /\ Listed(req'.table_name[1])
        /\ ~resp'.faulted
        /\ LET t == <<HomeOf(req'.table_name[1]), req'.table_name[1]>>
           IN  /\ pkOf[t] # NoPK
               /\ \A r \in AllRows :
                      r[pkOf[t]] = req'.pk[1] => rows[t][r] = 0)
       => (resp'.status = 404 /\ rows' = rows)]_vars

\* C2: a request without table_name (no body, no key, or an empty value) is
\* answered 400 with an error member, on every endpoint (no driver failure
\* in the request).
C2_MissingTableNameIs400 ==
    (/\ Handled
     /\ ~resp.faulted
     /\ \/ req.body = "null"
        \/ req.table_name = << >>
        \/ req.table_name = <<"">>)
    => (resp.status = 400 /\ resp.error \notin {"none", "unhandled"})

\* C3: a well-formed request naming a table that no schema lists is answered
\* 404 on every endpoint, whether or not introspection fails.
C3_UnknownTableIs404 ==
    (/\ Handled
     /\ WellFormed(req)
     /\ ~Listed(req.table_name[1]))
    => resp.status = 404

\* C4: a schema resolved for a table name lists that name and is the first
\* schema in enumeration order to do so; and when introspection does not
\* fail, a listed name resolves.
C4_ResolvesFirstListingSchema ==
    Handled =>
        /\ resp.schema # "" =>
               /\ req.table_name # << >>
               /\ Listed(req.table_name[1])
               /\ resp.schema = HomeOf(req.table_name[1])
        /\ (resp.introspected /\ ~resp.faulted /\ Listed(req.table_name[1]))
               => resp.schema # ""

\* C4's case: T1 is listed by both schemas and resolves to the first.
C4_Witness ==
    /\ Handled
    /\ req.table_name = <<"T1">>
    /\ resp.schema = "s1"
    /\ "T1" \in TableNames("s2")

\* C5: an add_record whose table_data is absent or {} is answered 400 and
\* inserts nothing (no driver failure in the request).
C5_EmptyPayloadRejected ==
    [][(/\ Handling
        /\ req'.op = "add"
        /\ req'.body = "object"
        /\ ~resp'.faulted
        /\ (req'.data = << >> \/ DOMAIN req'.data[1] = {}))
       => (resp'.status = 400 /\ rows' = rows)]_vars

\* C6: an update or delete on a resolved table that declares no primary key
\* is answered 404 and executes no statement (no driver failure in the
\* request).
C6_NoPrimaryKeyIs404 ==
    (/\ Handled
     /\ req.op \in {"update", "delete"}
     /\ WellFormed(req)
     /\ Listed(req.table_name[1])
     /\ ~resp.faulted
     /\ pkOf[<<HomeOf(req.table_name[1]), req.table_name[1]>>] = NoPK)
    => (resp.status = 404 /\ ~resp.executed)

\* C7: an update answered 200 found the row whose primary key equals pk and
\* left it with the columns of update_data set as given and its other columns
\* as before; every other row, and every other table, is as before.
C7_UpdateChangesExactlyTarget ==
    [][(/\ Handling
        /\ req'.op = "update"
        /\ resp'.status = 200)
       => LET t == <<HomeOf(req'.table_name[1]), req'.table_name[1]>>
              d == req'.data[1]
          IN  /\ pkOf[t] # NoPK
              /\ \E r0 \in AllRows :
                    LET r1 == [c \in Columns |->
                                 IF c \in DOMAIN d THEN d[c] ELSE r0[c]]
                    IN  /\ r0[pkOf[t]] = req'.pk[1]
                        /\ rows[t][r0] = 1
                        /\ rows'[t] = [rows[t] EXCEPT ![r0] = 0, ![r1] = @ + 1]
              /\ \A u \in Tables \ {t} : rows'[u] = rows[u]]_vars

\* C8: once a request is over, no connection it obtained is still open.
C8_ConnectionsReleased ==
    pc = "idle" => openConns = 0

\* C9: the primary key a request works with is the one the database
\* declares for the table at the time of that request.
C9_LiveIntrospection ==
    (Handled /\ resp.pkSeen # "unset")
    => resp.pkSeen = pkOf[<<resp.schema, req.table_name[1]>>]

\* C10: a request not answered 200 leaves every table's rows as they were,
\* and a request answered 400 that lacks a key was rejected before any
\* introspection or statement.
C10_OnlySuccessChangesRows ==
    [][Handling =>
          /\ resp'.status # 200 => rows' = rows
          /\ (resp'.status = 400 /\ KeyAbsent(req'))
                 => (~resp'.introspected /\ ~resp'.executed)]_vars

\* C10's case: a delete that ran its statement and was answered 404.
C10_Witness ==
    /\ Handled
    /\ req.op = "delete"
    /\ resp.executed
    /\ resp.status = 404

====
